---- MODULE Spec2Model ----
(***************************************************************************)
(* A model of the user-management service: the validators                  *)
(* (validators.py), the account store (database.py) and the request        *)
(* handlers (app.py).                                                      *)
(*                                                                         *)
(* A Python str is a sequence of one-character strings.  A JSON value is a *)
(* record [num, text, type]: type is "str", "num", "null", or "absent" for *)
(* a key that the object does not hold, text the text of a string, num the *)
(* value of a number.                                                      *)
(***************************************************************************)
EXTENDS Integers, Sequences, FiniteSets, TLC

\* The field names of the records of this module; every record lists its
\* fields in this order.
FieldNames ==
    DOMAIN [body |-> 0, code |-> 0, created_at |-> 0, data |-> 0, digest |-> 0,
            digits |-> 0, email |-> 0, error |-> 0, exc |-> 0, found |-> 0,
            id |-> 0, isJson |-> 0, kind |-> 0, message |-> 0, msg |-> 0,
            name |-> 0, neg |-> 0, num |-> 0, ok |-> 0, op |-> 0,
            password |-> 0, password_hash |-> 0, path |-> 0, q |-> 0,
            req |-> 0, rowcount |-> 0, salt |-> 0, status |-> 0, table |-> 0,
            text |-> 0, type |-> 0, updated_at |-> 0, user_id |-> 0, value |-> 0]

\* ------------------------------------------------------------------------
\* Strings
\* ------------------------------------------------------------------------

LowerLetters == {"a","b","c","d","e","f","g","h","i","j","k","l","m",
                 "n","o","p","q","r","s","t","u","v","w","x","y","z"}

UpperLetters == {"A","B","C","D","E","F","G","H","I","J","K","L","M",
                 "N","O","P","Q","R","S","T","U","V","W","X","Y","Z"}

Letters == LowerLetters \cup UpperLetters

Digits == {"0","1","2","3","4","5","6","7","8","9"}

\* What str.strip() removes and what \s matches (ASCII).
Whitespace == {" ", "\t", "\n", "\r", "\f"}

UpperOf == [c \in LowerLetters |->
              CASE c = "a" -> "A" [] c = "b" -> "B" [] c = "c" -> "C"
                [] c = "d" -> "D" [] c = "e" -> "E" [] c = "f" -> "F"
                [] c = "g" -> "G" [] c = "h" -> "H" [] c = "i" -> "I"
                [] c = "j" -> "J" [] c = "k" -> "K" [] c = "l" -> "L"
                [] c = "m" -> "M" [] c = "n" -> "N" [] c = "o" -> "O"
                [] c = "p" -> "P" [] c = "q" -> "Q" [] c = "r" -> "R"
                [] c = "s" -> "S" [] c = "t" -> "T" [] c = "u" -> "U"
                [] c = "v" -> "V" [] c = "w" -> "W" [] c = "x" -> "X"
                [] c = "y" -> "Y" [] OTHER -> "Z"]

\* str.lower() on one character.
LowerChar(c) ==
    IF c \in UpperLetters THEN CHOOSE l \in LowerLetters : UpperOf[l] = c ELSE c

\* str.lower()
Lower(s) == [i \in DOMAIN s |-> LowerChar(s[i])]

RECURSIVE LStrip(_)
LStrip(s) ==
    IF s # <<>> /\ Head(s) \in Whitespace THEN LStrip(Tail(s)) ELSE s

RECURSIVE RStrip(_)
RStrip(s) ==
    IF s # <<>> /\ s[Len(s)] \in Whitespace
    THEN RStrip(SubSeq(s, 1, Len(s) - 1)) ELSE s

\* str.strip()
Strip(s) == RStrip(LStrip(s))

\* The positions of s that hold character c.
Positions(s, c) == {i \in DOMAIN s : s[i] = c}

\* ------------------------------------------------------------------------
\* JSON values
\* ------------------------------------------------------------------------

JStr(s) == [num |-> 0, text |-> s, type |-> "str"]

JNum(n) == [num |-> n, text |-> <<>>, type |-> "num"]

JNull == [num |-> 0, text |-> <<>>, type |-> "null"]

\* The key is not in the object.
JAbsent == [num |-> 0, text |-> <<>>, type |-> "absent"]

\* Python's truth value of a JSON value: `not v` is its negation.
Truthy(v) ==
    CASE v.type = "str" -> v.text # <<>>
      [] v.type = "num" -> v.num # 0
      [] OTHER -> FALSE

\* `key in data`
HasKey(v) == v.type # "absent"

\* ------------------------------------------------------------------------
\* validators.py.  A validator's result is [ok, value, msg]: the value it
\* returns, or the message of the ValidationError it raises.
\* ------------------------------------------------------------------------

Valid(v) == [msg |-> "", ok |-> TRUE, value |-> v]

Invalid(m) == [msg |-> m, ok |-> FALSE, value |-> <<>>]

\* email_validator.validate_email(email).normalized succeeds: the address has
\* one "@", a local part, and a domain of letters, digits and hyphens with a
\* dot between two of its labels; the address validate_email hands it is
\* trimmed and lowercased already, and is returned as it is.
EmailSyntaxOk(s) ==
    /\ Cardinality(Positions(s, "@")) = 1
    /\ LET at == CHOOSE i \in DOMAIN s : s[i] = "@"
           local == SubSeq(s, 1, at - 1)
           domain == SubSeq(s, at + 1, Len(s))
       IN /\ local # <<>>
          /\ \A i \in DOMAIN local : local[i] \in Letters \cup Digits \cup {".", "-", "_", "+"}
          /\ local[1] # "." /\ local[Len(local)] # "."
          /\ domain # <<>>
          /\ \A i \in DOMAIN domain : domain[i] \in Letters \cup Digits \cup {".", "-"}
          /\ Positions(domain, ".") # {}
          /\ domain[1] # "." /\ domain[Len(domain)] # "."
          /\ \A i \in Positions(domain, ".") : (i + 1) \notin Positions(domain, ".")

\* UserValidator.validate_email
validate_email(email) ==
    IF ~Truthy(email) \/ email.type # "str"
    THEN Invalid("Email is required and must be a string")
    ELSE LET e == Lower(Strip(email.text))
         IN IF EmailSyntaxOk(e) THEN Valid(e) ELSE Invalid("Invalid email format")

NameChars == Letters \cup Whitespace \cup {"-", "'"}

\* validate_name that checks the trimmed name and returns the name as given.
validate_name_Untrimmed(name) ==
    IF ~Truthy(name) \/ name.type # "str"
    THEN Invalid("Name is required and must be a string")
    ELSE LET n == Strip(name.text)
         IN IF Len(n) < 2
            THEN Invalid("Name must be at least 2 characters long")
            ELSE IF Len(n) > 100
            THEN Invalid("Name must be less than 100 characters")
            ELSE IF ~(\A i \in DOMAIN n : n[i] \in NameChars)
            THEN Invalid("Name can only contain letters, spaces, hyphens, and apostrophes")
            ELSE Valid(name.text)

\* UserValidator.validate_name
validate_name(name) ==
    IF ~Truthy(name) \/ name.type # "str"
    THEN Invalid("Name is required and must be a string")
    ELSE LET n == Strip(name.text)
         IN IF Len(n) < 2
            THEN Invalid("Name must be at least 2 characters long")
            ELSE IF Len(n) > 100
            THEN Invalid("Name must be less than 100 characters")
            ELSE IF ~(\A i \in DOMAIN n : n[i] \in NameChars)
            THEN Invalid("Name can only contain letters, spaces, hyphens, and apostrophes")
            ELSE Valid(n)

\* UserValidator.validate_password
validate_password(password) ==
    IF ~Truthy(password) \/ password.type # "str"
    THEN Invalid("Password is required and must be a string")
    ELSE LET p == password.text
         IN IF Len(p) < 8
            THEN Invalid("Password must be at least 8 characters long")
            ELSE IF Len(p) > 128
            THEN Invalid("Password must be less than 128 characters")
            ELSE IF ~(\E i \in DOMAIN p : p[i] \in Letters)
            THEN Invalid("Password must contain at least one letter")
            ELSE IF ~(\E i \in DOMAIN p : p[i] \in Digits)
            THEN Invalid("Password must contain at least one number")
            ELSE Valid(p)

DigitVal == [c \in Digits |->
               CASE c = "0" -> 0 [] c = "1" -> 1 [] c = "2" -> 2 [] c = "3" -> 3
                 [] c = "4" -> 4 [] c = "5" -> 5 [] c = "6" -> 6 [] c = "7" -> 7
                 [] c = "8" -> 8 [] OTHER -> 9]

\* The digits of an integer literal without its leading zeros.
RECURSIVE DropZeros(_)
DropZeros(ds) ==
    IF Len(ds) > 1 /\ Head(ds) = "0" THEN DropZeros(Tail(ds)) ELSE ds

\* s without its underscores.
RECURSIVE DropUnderscores(_)
DropUnderscores(s) ==
    IF s = <<>> THEN <<>>
    ELSE IF Head(s) = "_" THEN DropUnderscores(Tail(s))
    ELSE <<Head(s)>> \o DropUnderscores(Tail(s))

\* Python's int(s) of a str.  The result is [ok, neg, digits]: the sign and
\* the digits of the integer without leading zeros (a Python int has no
\* width), or ok = FALSE for the ValueError.  int() takes surrounding
\* whitespace, one sign, and single underscores between digits.
ParseInt(s) ==
    LET t == Strip(s)
        signed == t # <<>> /\ Head(t) \in {"+", "-"}
        body == IF signed THEN Tail(t) ELSE t
        wellFormed ==
            /\ body # <<>>
            /\ \A i \in DOMAIN body : body[i] \in Digits \cup {"_"}
            /\ body[1] # "_" /\ body[Len(body)] # "_"
            /\ \A i \in Positions(body, "_") : (i + 1) \notin Positions(body, "_")
    IN IF wellFormed
       THEN [digits |-> DropZeros(DropUnderscores(body)), neg |-> (signed /\ Head(t) = "-"),
             ok |-> TRUE]
       ELSE [digits |-> <<>>, neg |-> FALSE, ok |-> FALSE]

\* UserValidator.validate_user_id: the value is the digits of the positive
\* integer.
validate_user_id(user_id) ==
    IF user_id = <<>>
    THEN Invalid("User ID is required")
    ELSE LET i == ParseInt(user_id)
         IN IF ~i.ok
            THEN Invalid("User ID must be a valid integer")
            ELSE IF i.neg \/ i.digits = <<"0">>
            THEN Invalid("User ID must be a positive integer")
            ELSE Valid(i.digits)

\* UserValidator.validate_search_name
validate_search_name(name) ==
    IF name = <<>>
    THEN Invalid("Search name is required and must be a string")
    ELSE LET n == Strip(name)
         IN IF Len(n) < 1
            THEN Invalid("Search name cannot be empty")
            ELSE IF Len(n) > 50
            THEN Invalid("Search name must be less than 50 characters")
            ELSE IF ~(\A i \in DOMAIN n : n[i] \in NameChars)
            THEN Invalid("Search name can only contain letters, spaces, hyphens, and apostrophes")
            ELSE Valid(n)

\* A request body is [kind, name, email, password]: kind is "object" for a
\* JSON object (with its three keys of interest, JAbsent when it lacks one),
\* "other" for any other JSON value (an array, a string, a number, null) and
\* "malformed" for text that is not JSON.
IsDict(data) == data.kind = "object"

NoFields == [email |-> <<>>, name |-> <<>>, password |-> JAbsent]

InvalidData(m) == [msg |-> m, ok |-> FALSE, value |-> NoFields]

\* UserValidator.validate_create_user_data
validate_create_user_data(data) ==
    IF ~IsDict(data) THEN InvalidData("Request data must be a JSON object")
    ELSE IF ~HasKey(data.name) THEN InvalidData("Missing required field: name")
    ELSE IF ~HasKey(data.email) THEN InvalidData("Missing required field: email")
    ELSE IF ~HasKey(data.password) THEN InvalidData("Missing required field: password")
    ELSE LET n == validate_name(data.name)
             e == validate_email(data.email)
             p == validate_password(data.password)
         IN IF ~n.ok THEN InvalidData(n.msg)
            ELSE IF ~e.ok THEN InvalidData(e.msg)
            ELSE IF ~p.ok THEN InvalidData(p.msg)
            ELSE [msg |-> "", ok |-> TRUE,
                  value |-> [email |-> e.value, name |-> n.value, password |-> JStr(p.value)]]

\* Python's None for an argument that is not given.
None == <<"None">>

\* validate_update_user_data without the check that a field is given.
validate_update_user_data_NoCheck(data) ==
    IF ~IsDict(data) THEN InvalidData("Request data must be a JSON object")
    ELSE LET n == IF HasKey(data.name) THEN validate_name(data.name) ELSE Valid(None)
             e == IF HasKey(data.email) THEN validate_email(data.email) ELSE Valid(None)
         IN IF ~n.ok THEN InvalidData(n.msg)
            ELSE IF ~e.ok THEN InvalidData(e.msg)
            ELSE [msg |-> "", ok |-> TRUE,
                  value |-> [email |-> e.value, name |-> n.value, password |-> JAbsent]]

\* UserValidator.validate_update_user_data: the value holds None for a key
\* the validated dict does not hold (app.py reads it with .get).
validate_update_user_data(data) ==
    IF ~IsDict(data) THEN InvalidData("Request data must be a JSON object")
    ELSE LET n == IF HasKey(data.name) THEN validate_name(data.name) ELSE Valid(None)
             e == IF HasKey(data.email) THEN validate_email(data.email) ELSE Valid(None)
         IN IF ~n.ok THEN InvalidData(n.msg)
            ELSE IF ~e.ok THEN InvalidData(e.msg)
            ELSE IF ~HasKey(data.name) /\ ~HasKey(data.email)
            THEN InvalidData("At least one field (name or email) must be provided for update")
            ELSE [msg |-> "", ok |-> TRUE,
                  value |-> [email |-> e.value, name |-> n.value, password |-> JAbsent]]

\* UserValidator.validate_login_data: the password is passed through as it is.
validate_login_data(data) ==
    IF ~IsDict(data) THEN InvalidData("Request data must be a JSON object")
    ELSE IF ~HasKey(data.email) THEN InvalidData("Email is required for login")
    ELSE IF ~HasKey(data.password) THEN InvalidData("Password is required for login")
    ELSE LET e == validate_email(data.email)
         IN IF ~e.ok THEN InvalidData(e.msg)
            ELSE [msg |-> "", ok |-> TRUE,
                  value |-> [email |-> e.value, name |-> <<>>, password |-> data.password]]

\* ------------------------------------------------------------------------
\* The inputs the requests are drawn from
\* ------------------------------------------------------------------------

EmailA == <<"a", "@", "x", ".", "c">>

\* EmailA in another letter case and with surrounding whitespace.
EmailAVariant == <<" ", "A", "@", "X", ".", "c", " ">>

EmailB == <<"b", "@", "x", ".", "c">>

EmailNoAt == <<"a", "x", ".", "c">>

NameAl == <<"A", "l">>

NameBoPadded == <<" ", "B", "o">>

NameTooShort == <<"A">>

PwGood == <<"a", "b", "c", "d", "e", "f", "g", "1">>

PwOther == <<"h", "u", "n", "t", "e", "r", "2", "2">>

PwShort == <<"a", "b", "c">>

\* A password validate_password accepts and bcrypt cannot hash whole: one
\* byte more than bcrypt takes.
PwLong == [i \in 1..73 |-> IF i = 1 THEN "1" ELSE "a"]

\* A lone surrogate (U+D800), which json.loads reads from the escape \ud800
\* of a JSON string: one character of a str that UTF-8 cannot encode.
Surrogate == "lone-surrogate"

\* A password validate_password accepts and str.encode('utf-8') rejects.
PwSurrogate == PwGood \o <<Surrogate>>

\* The longest password validate_password accepts.
Pw128 == [i \in 1..128 |-> IF i = 1 THEN "1" ELSE "a"]

\* One character more than validate_password accepts.
Pw129 == [i \in 1..129 |-> IF i = 1 THEN "1" ELSE "a"]

PwSevenChars == <<"a", "b", "c", "d", "e", "f", "1">>

PwNoLetter == <<"1", "2", "3", "4", "5", "6", "7", "8">>

PwNoDigit == <<"a", "b", "c", "d", "e", "f", "g", "h">>

\* The letter e with an acute accent (U+00E9), one character of a str.
EAcute == "e-acute"

\* A password whose letters are all outside a-z and A-Z.
PwAccented == [i \in 1..8 |-> IF i = 8 THEN "1" ELSE EAcute]

\* ------------------------------------------------------------------------
\* bcrypt (database.py: hash_password, verify_password)
\* ------------------------------------------------------------------------

VARIABLES
    users,         \* the users table: row id -> row
    seq,           \* sqlite_sequence: the largest row id ever assigned
    clock,         \* CURRENT_TIMESTAMP
    bcryptStrict,  \* the installed bcrypt raises ValueError for a password
                   \* it cannot hash whole (otherwise it truncates it)
    pc,            \* each worker's position in the request it is handling
    ctx,           \* each worker's request in flight and its local values
    resp,          \* each worker's response, until the client has taken it
    created,       \* history: id of a stored user -> the email and password it was created with
    removed        \* history: the ids a DELETE has answered 200 for

vars == <<users, seq, clock, bcryptStrict, pc, ctx, resp, created, removed>>

\* The bytes of a password bcrypt reads.
BcryptMaxBytes == 72

Truncate(bytes) ==
    IF Len(bytes) > BcryptMaxBytes THEN SubSeq(bytes, 1, BcryptMaxBytes) ELSE bytes

\* The texts that are hashed in this model; a digest is the index of the
\* hashed bytes in it: equal digests, equal bytes.
HashInputs == <<PwGood, PwOther, PwShort, PwLong, Pw128>>

OneWay(bytes) == CHOOSE i \in DOMAIN HashInputs : Truncate(HashInputs[i]) = bytes

\* The salts gensalt() draws.
Salts == {"salt1"}

NoHash == [digest |-> 0, salt |-> ""]

\* The result of a call that may raise: the exception ("none" when it
\* returns) and the value returned.
Returns(v) == [exc |-> "none", value |-> v]

Raises(e, v) == [exc |-> e, value |-> v]

\* str(e) of the UnicodeEncodeError, a ValueError, that
\* PwSurrogate.encode('utf-8') raises.
SurrogateNotAllowed ==
    "'utf-8' codec can't encode character '\\ud800' in position 8: surrogates not allowed"

\* password.encode('utf-8') returns.
Encodes(text) == \A i \in DOMAIN text : text[i] # Surrogate

\* bcrypt.hashpw(password, salt)
hashpw(bytes, salt) ==
    IF bcryptStrict /\ Len(bytes) > BcryptMaxBytes
    THEN Raises("ValueError", NoHash)
    ELSE Returns([digest |-> OneWay(Truncate(bytes)), salt |-> salt])

\* DatabaseManager.hash_password, with the salt gensalt() drew
hash_password(password, salt) ==
    IF password.type # "str" THEN Raises("AttributeError", NoHash)
    ELSE IF ~Encodes(password.text) THEN Raises("UnicodeEncodeError", NoHash)
    ELSE hashpw(password.text, salt)

\* verify_password hashing the password with a new salt, not the stored one.
verify_password_NewSalt(password, hashed_password) ==
    IF password.type # "str" THEN Raises("AttributeError", FALSE)
    ELSE IF ~Encodes(password.text) THEN Raises("UnicodeEncodeError", FALSE)
    ELSE LET h == hashpw(password.text, "salt0")
         IN IF h.exc # "none" THEN Raises(h.exc, FALSE)
            ELSE Returns(h.value = hashed_password)

\* DatabaseManager.verify_password: bcrypt.checkpw hashes the password with
\* the salt of the stored hash and compares.
verify_password(password, hashed_password) ==
    IF password.type # "str" THEN Raises("AttributeError", FALSE)
    ELSE IF ~Encodes(password.text) THEN Raises("UnicodeEncodeError", FALSE)
    ELSE LET h == hashpw(password.text, hashed_password.salt)
         IN IF h.exc # "none" THEN Raises(h.exc, FALSE)
            ELSE Returns(h.value = hashed_password)

\* ------------------------------------------------------------------------
\* The users table (database.py)
\* ------------------------------------------------------------------------

\* The largest INTEGER of SQLite, 2^63 - 1.
Int64MaxDigits == <<"9","2","2","3","3","7","2","0","3","6",
                    "8","5","4","7","7","5","8","0","7">>

\* a <= b for two digit strings of one length.
DigitsLeq(a, b) ==
    \/ a = b
    \/ \E i \in DOMAIN a : /\ DigitVal[a[i]] < DigitVal[b[i]]
                           /\ \A j \in 1..(i - 1) : a[j] = b[j]

\* sqlite3 binds the Python int as a parameter; it raises OverflowError for
\* one that does not fit a 64-bit INTEGER.
FitsSqliteInt(digits) ==
    \/ Len(digits) < Len(Int64MaxDigits)
    \/ Len(digits) = Len(Int64MaxDigits) /\ DigitsLeq(digits, Int64MaxDigits)

RECURSIVE DigitsValue(_)
DigitsValue(digits) ==
    IF digits = <<>> THEN 0
    ELSE 10 * DigitsValue(SubSeq(digits, 1, Len(digits) - 1)) + DigitVal[digits[Len(digits)]]

\* The row id a validated user id addresses; 0, which is no row's id, for
\* an id beyond every id of the model.
RowId(digits) == IF Len(digits) <= 9 THEN DigitsValue(digits) ELSE 0

\* The rows WHERE email = ? selects.
IdsWithEmail(email) == {i \in DOMAIN users : users[i].email = email}

\* SELECT * FROM users WHERE id = ?
NoRow == [created_at |-> 0, email |-> <<>>, id |-> 0, name |-> <<>>,
          password_hash |-> NoHash, updated_at |-> 0]

\* DatabaseManager.get_user_by_id: [exc, found, value]
get_user_by_id(user_id) ==
    IF ~FitsSqliteInt(user_id)
    THEN [exc |-> "OverflowError", found |-> FALSE, value |-> NoRow]
    ELSE IF RowId(user_id) \in DOMAIN users
    THEN [exc |-> "none", found |-> TRUE, value |-> users[RowId(user_id)]]
    ELSE [exc |-> "none", found |-> FALSE, value |-> NoRow]

\* get_user_by_email that finds a user under the email it was created
\* with, as a lookup table that the UPDATE does not maintain would.
get_user_by_email_Stale(email) ==
    IF \E i \in DOMAIN users : created[i].email = email
    THEN [exc |-> "none", found |-> TRUE,
          value |-> users[CHOOSE i \in DOMAIN users : created[i].email = email]]
    ELSE [exc |-> "none", found |-> FALSE, value |-> NoRow]

\* DatabaseManager.get_user_by_email: [exc, found, value]
get_user_by_email(email) ==
    IF IdsWithEmail(email) # {}
    THEN [exc |-> "none", found |-> TRUE,
          value |-> users[CHOOSE i \in IdsWithEmail(email) : TRUE]]
    ELSE [exc |-> "none", found |-> FALSE, value |-> NoRow]

\* The columns SELECT id, name, email, created_at, updated_at reads.
PublicColumns(row) ==
    [created_at |-> row.created_at, email |-> row.email, id |-> row.id,
     name |-> row.name, updated_at |-> row.updated_at]

\* The rows with the given ids in row id order.
RECURSIVE RowsInOrder(_)
RowsInOrder(ids) ==
    IF ids = {} THEN <<>>
    ELSE LET m == CHOOSE i \in ids : \A j \in ids : i <= j
         IN <<users[m]>> \o RowsInOrder(ids \ {m})

\* DatabaseManager.get_all_users
get_all_users ==
    LET rows == RowsInOrder(DOMAIN users)
    IN [i \in DOMAIN rows |-> PublicColumns(rows[i])]

\* t occurs in s.
Contains(s, t) ==
    \E i \in 0..(Len(s) - Len(t)) : SubSeq(s, i + 1, i + Len(t)) = t

\* search_users_by_name with a comparison that tells the letter cases apart.
search_users_by_name_CaseSensitive(name) ==
    LET rows == RowsInOrder({i \in DOMAIN users : Contains(users[i].name, name)})
    IN [i \in DOMAIN rows |-> PublicColumns(rows[i])]

\* DatabaseManager.search_users_by_name: name LIKE '%term%', which ignores
\* the case of ASCII letters.
search_users_by_name(name) ==
    LET rows == RowsInOrder({i \in DOMAIN users :
                               Contains(Lower(users[i].name), Lower(name))})
    IN [i \in DOMAIN rows |-> PublicColumns(rows[i])]

\* DatabaseManager.authenticate_user: [exc, found, value]
authenticate_user(email, password) ==
    LET user == get_user_by_email(email)
        v == verify_password(password, user.value.password_hash)
    IN IF ~user.found THEN [exc |-> "none", found |-> FALSE, value |-> NoRow]
       ELSE IF v.exc # "none" THEN [exc |-> v.exc, found |-> FALSE, value |-> NoRow]
       ELSE IF v.value
       THEN [exc |-> "none", found |-> TRUE,
             value |-> [created_at |-> user.value.created_at, email |-> user.value.email,
                      id |-> user.value.id, name |-> user.value.name]]
       ELSE [exc |-> "none", found |-> FALSE, value |-> NoRow]

\* The number of users the model creates: the cap on seq.
MaxUsers == 2

\* The last value of the clock.
MaxClock == 1

\* The largest id of a stored row, 0 when there is none.
MaxRowId == IF DOMAIN users = {} THEN 0
            ELSE CHOOSE i \in DOMAIN users : \A j \in DOMAIN users : j <= i

\* InsertUser for an id column without AUTOINCREMENT: the id is one more
\* than the largest id stored.
InsertUser_RowidReuse(name, email, password_hash) ==
    IF IdsWithEmail(email) # {}
    THEN [exc |-> "IntegrityError", id |-> 0, table |-> users]
    ELSE [exc |-> "none", id |-> MaxRowId + 1,
          table |-> [i \in DOMAIN users \cup {MaxRowId + 1} |->
                       IF i = MaxRowId + 1
                       THEN [created_at |-> clock, email |-> email, id |-> MaxRowId + 1,
                             name |-> name,
                             password_hash |-> password_hash, updated_at |-> clock]
                       ELSE users[i]]]

\* InsertUser without the UNIQUE constraint on email.
InsertUser_NoUnique(name, email, password_hash) ==
    [exc |-> "none", id |-> seq + 1,
     table |-> [i \in DOMAIN users \cup {seq + 1} |->
                  IF i = seq + 1
                  THEN [created_at |-> clock, email |-> email, id |-> seq + 1,
                        name |-> name,
                        password_hash |-> password_hash, updated_at |-> clock]
                  ELSE users[i]]]

\* INSERT INTO users (name, email, password_hash): [exc, id, table].  The
\* email column is UNIQUE; the id is AUTOINCREMENT, one more than the largest
\* ever assigned; both timestamps default to CURRENT_TIMESTAMP.
InsertUser(name, email, password_hash) ==
    IF IdsWithEmail(email) # {}
    THEN [exc |-> "IntegrityError", id |-> 0, table |-> users]
    ELSE [exc |-> "none", id |-> seq + 1,
          table |-> [i \in DOMAIN users \cup {seq + 1} |->
                       IF i = seq + 1
                       THEN [created_at |-> clock, email |-> email, id |-> seq + 1,
                             name |-> name,
                             password_hash |-> password_hash, updated_at |-> clock]
                       ELSE users[i]]]

\* UpdateRows with SET name = ?, email = ? whatever was given.
UpdateRows_SetsBoth(user_id, name, email) ==
    LET id == RowId(user_id)
    IN IF name = None /\ email = None
       THEN [exc |-> "none", rowcount |-> 0, table |-> users]
       ELSE IF ~FitsSqliteInt(user_id)
       THEN [exc |-> "OverflowError", rowcount |-> 0, table |-> users]
       ELSE IF id \notin DOMAIN users
       THEN [exc |-> "none", rowcount |-> 0, table |-> users]
       ELSE IF email # None /\ IdsWithEmail(email) \ {id} # {}
       THEN [exc |-> "IntegrityError", rowcount |-> 0, table |-> users]
       ELSE [exc |-> "none", rowcount |-> 1,
             table |-> [users EXCEPT ![id] =
                          [@ EXCEPT !.name = name, !.email = email,
                                    !.updated_at = clock]]]

\* UPDATE users SET [name = ?,] [email = ?,] updated_at = CURRENT_TIMESTAMP
\* WHERE id = ?: [exc, rowcount, table].  name and email are None when not
\* given; update_user returns before the UPDATE when both are.
UpdateRows(user_id, name, email) ==
    LET id == RowId(user_id)
    IN IF name = None /\ email = None
       THEN [exc |-> "none", rowcount |-> 0, table |-> users]
       ELSE IF ~FitsSqliteInt(user_id)
       THEN [exc |-> "OverflowError", rowcount |-> 0, table |-> users]
       ELSE IF id \notin DOMAIN users
       THEN [exc |-> "none", rowcount |-> 0, table |-> users]
       ELSE IF email # None /\ IdsWithEmail(email) \ {id} # {}
       THEN [exc |-> "IntegrityError", rowcount |-> 0, table |-> users]
       ELSE [exc |-> "none", rowcount |-> 1,
             table |-> [users EXCEPT ![id] =
                          [@ EXCEPT !.name = IF name # None THEN name ELSE @,
                                    !.email = IF email # None THEN email ELSE @,
                                    !.updated_at = clock]]]

\* DELETE FROM users WHERE id = ?: [exc, rowcount, table]
DeleteRows(user_id) ==
    LET id == RowId(user_id)
    IN IF ~FitsSqliteInt(user_id)
       THEN [exc |-> "OverflowError", rowcount |-> 0, table |-> users]
       ELSE IF id \notin DOMAIN users
       THEN [exc |-> "none", rowcount |-> 0, table |-> users]
       ELSE [exc |-> "none", rowcount |-> 1,
             table |-> [i \in DOMAIN users \ {id} |-> users[i]]]

\* ------------------------------------------------------------------------
\* Requests and responses (app.py)
\* ------------------------------------------------------------------------

Workers == {1, 2}

NoBody == [email |-> JAbsent, kind |-> "none", name |-> JAbsent, password |-> JAbsent]

\* A JSON object with these values for its keys name, email and password.
Object(name, email, password) ==
    [email |-> email, kind |-> "object", name |-> name, password |-> password]

\* A JSON value that is not an object.
NotAnObject == [NoBody EXCEPT !.kind = "other"]

\* Text that is not JSON.
Malformed == [NoBody EXCEPT !.kind = "malformed"]

\* A request: the route, the <user_id> of the path, whether the content
\* type is application/json, the body, and the query parameter `name`.
Request(op, path, isJson, body, q) ==
    [body |-> body, isJson |-> isJson, op |-> op, path |-> path, q |-> q]

NoRequest == Request("none", <<>>, FALSE, NoBody, JAbsent)

NoResponse == [body |-> [status |-> "none"], code |-> 0, req |-> NoRequest]

NoCtx == [email |-> <<>>, name |-> <<>>, password_hash |-> NoHash, req |-> NoRequest,
          user_id |-> <<>>]

\* create_error_response with the reason under the key message.
create_error_response_Message(message, status_code) ==
    [body |-> [message |-> message, status |-> "error"], code |-> status_code]

\* create_error_response
create_error_response(message, status_code) ==
    [body |-> [error |-> message, status |-> "error"], code |-> status_code]

\* create_success_response with data
create_success_response(data, message) ==
    [data |-> data, message |-> message, status |-> "success"]

\* create_success_response without data
create_success_message(message) ==
    [message |-> message, status |-> "success"]

\* Flask answers 200 with the dict a view returns.
Ok(body) == [body |-> body, code |-> 200]

\* A pop that leaves the row as it was read.
PopPasswordHash_Keeps(user) == user

\* user.pop('password_hash', None)
PopPasswordHash(user) == PublicColumns(user)

\* Worker p answers request r with `out` and is done.
Respond(p, r, out) ==
    /\ resp' = [resp EXCEPT ![p] = [body |-> out.body, code |-> out.code, req |-> r]]
    /\ pc' = [pc EXCEPT ![p] = "done"]
    /\ ctx' = [ctx EXCEPT ![p] = NoCtx]

\* request.get_json() raises BadRequest for a body that is not JSON.
JsonFails(r) == r.body.kind = "malformed"

\* GET /: health_check
HealthCheck(p, r) ==
    /\ pc[p] = "idle"
    /\ Respond(p, r, Ok(create_success_message("User Management System is running")))
    /\ UNCHANGED <<users, seq, clock, bcryptStrict, created, removed>>

\* GET /users: get_all_users
GetAllUsers(p, r) ==
    /\ pc[p] = "idle"
    /\ Respond(p, r, Ok(create_success_response(get_all_users, "Users retrieved successfully")))
    /\ UNCHANGED <<users, seq, clock, bcryptStrict, created, removed>>

\* GET /user/<user_id>: get_user
GetUser(p, r) ==
    /\ pc[p] = "idle"
    /\ LET i == validate_user_id(r.path)
           user == get_user_by_id(i.value)
       IN IF ~i.ok
          THEN Respond(p, r, create_error_response(i.msg, 400))
          ELSE IF user.exc # "none"
          THEN Respond(p, r, create_error_response("Failed to retrieve user", 500))
          ELSE IF user.found
          THEN Respond(p, r, Ok(create_success_response(PopPasswordHash(user.value),
                                                        "User retrieved successfully")))
          ELSE Respond(p, r, create_error_response("User not found", 404))
    /\ UNCHANGED <<users, seq, clock, bcryptStrict, created, removed>>

\* str(e) of the ValueError bcrypt raises for a password over 72 bytes.
BcryptTooLong ==
    "password cannot be longer than 72 bytes, truncate manually if necessary (e.g. my_password[:72])"

\* The creates that have hashed the password and not yet inserted the row.
Inserting == {q \in Workers : pc[q] = "insert"}

\* POST /users: create_user up to the INSERT: the body is read and validated
\* and the password hashed with the salt gensalt() drew.
CreateUserBegin(p, r, salt) ==
    /\ pc[p] = "idle"
    /\ LET v == validate_create_user_data(r.body)
           h == hash_password(v.value.password, salt)
       IN IF ~r.isJson
          THEN Respond(p, r, create_error_response("Content-Type must be application/json", 400))
          ELSE IF JsonFails(r)
          THEN Respond(p, r, create_error_response("Failed to create user", 500))
          ELSE IF ~v.ok
          THEN Respond(p, r, create_error_response(v.msg, 400))
          ELSE IF h.exc = "ValueError"
          THEN Respond(p, r, create_error_response(BcryptTooLong, 409))
          ELSE IF h.exc = "UnicodeEncodeError"
          THEN Respond(p, r, create_error_response(SurrogateNotAllowed, 409))
          ELSE IF h.exc # "none"
          THEN Respond(p, r, create_error_response("Failed to create user", 500))
          ELSE /\ seq + Cardinality(Inserting) < MaxUsers
               /\ pc' = [pc EXCEPT ![p] = "insert"]
               /\ ctx' = [ctx EXCEPT ![p] = [email |-> v.value.email, name |-> v.value.name,
                                             password_hash |-> h.value, req |-> r,
                                             user_id |-> <<>>]]
               /\ UNCHANGED resp
    /\ UNCHANGED <<users, seq, clock, bcryptStrict, created, removed>>

\* POST /users: the INSERT of create_user and the response.
CreateUserInsert(p) ==
    /\ pc[p] = "insert"
    /\ LET c == ctx[p]
           ins == InsertUser(c.name, c.email, c.password_hash)
       IN IF ins.exc = "IntegrityError"
          THEN /\ Respond(p, c.req, create_error_response("Email already exists", 409))
               /\ UNCHANGED <<users, seq, created>>
          ELSE /\ users' = ins.table
               /\ seq' = ins.id
               /\ created' = [i \in DOMAIN created \cup {ins.id} |->
                                IF i = ins.id
                                THEN [email |-> c.email, password |-> c.req.body.password]
                                ELSE created[i]]
               /\ Respond(p, c.req,
                          [body |-> create_success_response(
                                        [created_at |-> clock, email |-> c.email,
                                         id |-> ins.id, name |-> c.name],
                                        "User created successfully"),
                           code |-> 201])
    /\ UNCHANGED <<clock, bcryptStrict, removed>>

\* PUT /user/<user_id>: update_user up to the commit of the UPDATE.
UpdateUserExec(p, r) ==
    /\ pc[p] = "idle"
    /\ LET i == validate_user_id(r.path)
           v == validate_update_user_data(r.body)
           upd == UpdateRows(i.value, v.value.name, v.value.email)
       IN IF ~i.ok
          THEN Respond(p, r, create_error_response(i.msg, 400)) /\ UNCHANGED users
          ELSE IF ~r.isJson
          THEN /\ Respond(p, r, create_error_response("Content-Type must be application/json", 400))
               /\ UNCHANGED users
          ELSE IF JsonFails(r)
          THEN Respond(p, r, create_error_response("Failed to update user", 500)) /\ UNCHANGED users
          ELSE IF ~v.ok
          THEN Respond(p, r, create_error_response(v.msg, 400)) /\ UNCHANGED users
          ELSE IF upd.exc = "IntegrityError"
          THEN Respond(p, r, create_error_response("Email already exists", 409)) /\ UNCHANGED users
          ELSE IF upd.exc # "none"
          THEN Respond(p, r, create_error_response("Failed to update user", 500)) /\ UNCHANGED users
          ELSE IF upd.rowcount = 0
          THEN Respond(p, r, create_error_response("User not found", 404)) /\ UNCHANGED users
          ELSE /\ users' = upd.table
               /\ pc' = [pc EXCEPT ![p] = "reread"]
               /\ ctx' = [ctx EXCEPT ![p] = [NoCtx EXCEPT !.req = r, !.user_id = i.value]]
               /\ UNCHANGED resp
    /\ UNCHANGED <<seq, clock, bcryptStrict, created, removed>>

\* PUT /user/<user_id>: update_user's get_user_by_id after the commit, and
\* the response.
UpdateUserRead(p) ==
    /\ pc[p] = "reread"
    /\ LET c == ctx[p]
           user == get_user_by_id(c.user_id)
       IN IF user.found
          THEN Respond(p, c.req, Ok(create_success_response(PopPasswordHash(user.value),
                                                            "User updated successfully")))
          ELSE Respond(p, c.req, create_error_response("User not found", 404))
    /\ UNCHANGED <<users, seq, clock, bcryptStrict, created, removed>>

\* DELETE /user/<user_id>: delete_user
DeleteUser(p, r) ==
    /\ pc[p] = "idle"
    /\ LET i == validate_user_id(r.path)
           del == DeleteRows(i.value)
       IN IF ~i.ok
          THEN /\ Respond(p, r, create_error_response(i.msg, 400))
               /\ UNCHANGED <<users, removed, created>>
          ELSE IF del.exc # "none"
          THEN /\ Respond(p, r, create_error_response("Failed to delete user", 500))
               /\ UNCHANGED <<users, removed, created>>
          ELSE IF del.rowcount > 0
          THEN /\ users' = del.table
               /\ removed' = removed \cup {RowId(i.value)}
               /\ created' = [j \in DOMAIN del.table |-> created[j]]
               /\ Respond(p, r, Ok(create_success_message("User deleted successfully")))
          ELSE /\ Respond(p, r, create_error_response("User not found", 404))
               /\ UNCHANGED <<users, removed, created>>
    /\ UNCHANGED <<seq, clock, bcryptStrict>>

\* GET /search?name=: search_users
SearchUsers(p, r) ==
    /\ pc[p] = "idle"
    /\ LET v == validate_search_name(r.q.text)
       IN IF ~Truthy(r.q)
          THEN Respond(p, r, create_error_response("Name parameter is required", 400))
          ELSE IF ~v.ok
          THEN Respond(p, r, create_error_response(v.msg, 400))
          ELSE Respond(p, r, Ok(create_success_response(search_users_by_name(v.value),
                                                        "Search completed successfully")))
    /\ UNCHANGED <<users, seq, clock, bcryptStrict, created, removed>>

\* POST /login: login
Login(p, r) ==
    /\ pc[p] = "idle"
    /\ LET v == validate_login_data(r.body)
           user == authenticate_user(v.value.email, v.value.password)
       IN IF ~r.isJson
          THEN Respond(p, r, create_error_response("Content-Type must be application/json", 400))
          ELSE IF JsonFails(r)
          THEN Respond(p, r, create_error_response("Failed to authenticate user", 500))
          ELSE IF ~v.ok
          THEN Respond(p, r, create_error_response(v.msg, 400))
          ELSE IF user.exc # "none"
          THEN Respond(p, r, create_error_response("Failed to authenticate user", 500))
          ELSE IF user.found
          THEN Respond(p, r, Ok(create_success_response(user.value, "Login successful")))
          ELSE Respond(p, r, create_error_response("Invalid email or password", 401))
    /\ UNCHANGED <<users, seq, clock, bcryptStrict, created, removed>>

\* @app.errorhandler(404): a path no route matches
not_found(p, r) ==
    /\ pc[p] = "idle"
    /\ Respond(p, r, create_error_response("Endpoint not found", 404))
    /\ UNCHANGED <<users, seq, clock, bcryptStrict, created, removed>>

\* @app.errorhandler(405): a route asked with a method it does not take
method_not_allowed(p, r) ==
    /\ pc[p] = "idle"
    /\ Respond(p, r, create_error_response("Method not allowed", 405))
    /\ UNCHANGED <<users, seq, clock, bcryptStrict, created, removed>>

\* @app.errorhandler(500): the response to an exception no view catches
internal_error == create_error_response("Internal server error", 500)

\* The client takes the response; the worker is free for the next request.
Deliver(p) ==
    /\ pc[p] = "done"
    /\ pc' = [pc EXCEPT ![p] = "idle"]
    /\ resp' = [resp EXCEPT ![p] = NoResponse]
    /\ UNCHANGED <<users, seq, clock, bcryptStrict, ctx, created, removed>>

\* Time passes.
Tick ==
    /\ clock < MaxClock
    /\ clock' = clock + 1
    /\ UNCHANGED <<users, seq, bcryptStrict, pc, ctx, resp, created, removed>>

\* ------------------------------------------------------------------------
\* The specifications
\* ------------------------------------------------------------------------

\* After init_database on a new file: an empty users table, no request.
Init ==
    /\ users = [i \in {} |-> NoRow]
    /\ seq = 0
    /\ clock = 0
    /\ bcryptStrict \in BOOLEAN
    /\ pc = [p \in Workers |-> "idle"]
    /\ ctx = [p \in Workers |-> NoCtx]
    /\ resp = [p \in Workers |-> NoResponse]
    /\ created = [i \in {} |-> [email |-> <<>>, password |-> JAbsent]]
    /\ removed = {}

\* One more than the largest INTEGER of SQLite.
TooBigId == [Int64MaxDigits EXCEPT ![19] = "8"]

\* The <user_id> of the paths asked for: ids of rows, an id of no row, and
\* ids validate_user_id rejects.
PathIds == {<<"1">>, <<"2">>, <<"3">>, <<"0">>, <<"-", "1">>, <<"a">>, TooBigId}

PwNumber == JNum(12345678)

\* The bodies of POST /users.
CreateBodies ==
    {Object(JStr(NameAl), JStr(e), JStr(pw)) :
        e \in {EmailA, EmailAVariant}, pw \in {PwGood, PwLong}}
    \cup {Object(JStr(NameBoPadded), JStr(EmailB), JStr(PwGood)),
          Object(JStr(NameTooShort), JStr(EmailA), JStr(PwGood)),
          Object(JStr(NameAl), JStr(EmailNoAt), JStr(PwGood)),
          Object(JStr(NameAl), JStr(EmailA), JStr(PwShort)),
          Object(JStr(NameAl), JStr(EmailA), JStr(PwSurrogate)),
          Object(JStr(NameAl), JStr(EmailA), PwNumber),
          Object(JStr(NameAl), JStr(EmailA), JAbsent),
          NotAnObject, Malformed}

\* The bodies of PUT /user/<user_id>.
UpdateBodies ==
    {Object(n, e, JAbsent) :
        n \in {JAbsent, JStr(NameAl), JStr(NameBoPadded)},
        e \in {JAbsent, JStr(EmailAVariant), JStr(EmailB)}}
    \cup {Object(JStr(NameTooShort), JStr(EmailB), JAbsent),
          Object(JStr(NameAl), JStr(EmailNoAt), JAbsent)}
    \cup {NotAnObject, Malformed}

\* The bodies of POST /login.
LoginBodies ==
    {Object(JAbsent, JStr(e), pw) :
        e \in {EmailA, EmailAVariant, EmailB},
        pw \in {JStr(PwGood), JStr(PwOther), JStr(PwLong), PwNumber, JNull}}
    \cup {Object(JAbsent, JStr(EmailA), JStr(PwSurrogate)),
          Object(JAbsent, JStr(EmailNoAt), JStr(PwGood)),
          Object(JAbsent, JStr(EmailA), JAbsent),
          Object(JAbsent, JAbsent, JStr(PwGood)),
          NotAnObject, Malformed}

\* The values of the query parameter of GET /search.
SearchTerms ==
    {JAbsent, JStr(<<"b">>), JStr(<<"L">>), JStr(<<" ", "L">>), JStr(<<"1">>)}

\* A body sent with the content type application/json, or the same body
\* sent without it.
Posts(op, path, bodies) ==
    {Request(op, path, TRUE, b, JAbsent) : b \in bodies}
    \cup {Request(op, path, FALSE, Malformed, JAbsent)}

\* The PUT requests: every body for the ids of the first two rows, and two
\* bodies for every id.
UpdateRequests ==
    UNION {Posts("PUT /user/<user_id>", id, UpdateBodies) :
              id \in {<<"1">>, <<"2">>}}
    \cup {Request("PUT /user/<user_id>", id, TRUE, b, JAbsent) :
              id \in PathIds,
              b \in {Object(JAbsent, JAbsent, JAbsent),
                     Object(JStr(NameAl), JStr(EmailB), JAbsent)}}

\* The worker of the sequential specification.
Main == CHOOSE p \in Workers : \A q \in Workers : p <= q

\* One client: the requests are handled one after another.
Next ==
    \/ \E r \in {Request("GET /", <<>>, FALSE, NoBody, JAbsent)} : HealthCheck(Main, r)
    \/ \E r \in {Request("GET /users", <<>>, FALSE, NoBody, JAbsent)} : GetAllUsers(Main, r)
    \/ \E id \in PathIds :
          GetUser(Main, Request("GET /user/<user_id>", id, FALSE, NoBody, JAbsent))
    \/ \E r \in Posts("POST /users", <<>>, CreateBodies), salt \in Salts :
          CreateUserBegin(Main, r, salt)
    \/ CreateUserInsert(Main)
    \/ \E r \in UpdateRequests : UpdateUserExec(Main, r)
    \/ UpdateUserRead(Main)
    \/ \E id \in PathIds :
          DeleteUser(Main, Request("DELETE /user/<user_id>", id, FALSE, NoBody, JAbsent))
    \/ \E q \in SearchTerms :
          SearchUsers(Main, Request("GET /search", <<>>, FALSE, NoBody, q))
    \/ \E r \in Posts("POST /login", <<>>, LoginBodies) : Login(Main, r)
    \/ not_found(Main, Request("GET /nowhere", <<>>, FALSE, NoBody, JAbsent))
    \/ method_not_allowed(Main, Request("POST /", <<>>, FALSE, NoBody, JAbsent))
    \/ Deliver(Main)
    \/ Tick

Spec == Init /\ [][Next]_vars

\* The bodies of the concurrent POST /users requests.
RaceBodies ==
    {Object(JStr(NameAl), JStr(EmailA), JStr(PwGood)),
     Object(JStr(NameBoPadded), JStr(EmailAVariant), JStr(PwGood)),
     Object(JStr(NameAl), JStr(EmailB), JStr(PwGood)),
     Object(JStr(NameAl), JStr(EmailA), JStr(PwLong)),
     Object(JStr(NameAl), JStr(EmailAVariant), JStr(PwLong)),
     Object(JStr(NameAl), JStr(EmailA), JStr(PwSurrogate)),
     Object(JStr(NameAl), JStr(EmailAVariant), JStr(PwSurrogate)),
     Object(JStr(NameAl), JStr(EmailNoAt), JStr(PwGood))}

\* Two clients, one POST /users each, on a new database: the two requests
\* interleave at the steps of create_user.
NextRace ==
    \E p \in Workers :
        \/ \E r \in Posts("POST /users", <<>>, RaceBodies), salt \in Salts :
              CreateUserBegin(p, r, salt)
        \/ CreateUserInsert(p)

SpecRace == Init /\ [][NextRace]_vars

\* The bodies of the concurrent PUT requests.
UpdateRaceBodies ==
    {Object(JStr(NameBoPadded), JAbsent, JAbsent),
     Object(JStr(NameAl), JStr(EmailB), JAbsent),
     Object(JAbsent, JStr(EmailAVariant), JAbsent)}

\* Two clients whose requests interleave at the steps of the handlers: they
\* create users, and update and delete the first of them.
NextUpdateRace ==
    \E p \in Workers :
        \/ \E b \in {Object(JStr(NameAl), JStr(EmailA), JStr(PwGood)),
                     Object(JStr(NameBoPadded), JStr(EmailB), JStr(PwGood))},
              salt \in Salts :
              CreateUserBegin(p, Request("POST /users", <<>>, TRUE, b, JAbsent), salt)
        \/ CreateUserInsert(p)
        \/ \E b \in UpdateRaceBodies :
              UpdateUserExec(p, Request("PUT /user/<user_id>", <<"1">>, TRUE, b, JAbsent))
        \/ UpdateUserRead(p)
        \/ DeleteUser(p, Request("DELETE /user/<user_id>", <<"1">>, FALSE, NoBody, JAbsent))
        \/ Deliver(p)

SpecUpdateRace == Init /\ [][NextUpdateRace]_vars

\* The longest name drawn for the requests that try the validators.
MaxNameLen == 3

\* The characters the names are drawn from: a letter, a hyphen, a space, a
\* tab and a digit.
NameAlphabet == {"A", "-", " ", "\t", "1"}

\* The names tried: every string over NameAlphabet up to MaxNameLen.
NamesTried == UNION {[1..k -> NameAlphabet] : k \in 0..MaxNameLen}

\* The passwords tried: at and around the limits of validate_password.
PasswordsTried ==
    {JStr(PwGood), JStr(PwSevenChars), JStr(PwShort), JStr(PwNoLetter),
     JStr(PwNoDigit), JStr(Pw128), JStr(Pw129), JStr(PwAccented),
     JStr(PwSurrogate), JStr(<<>>),
     PwNumber, JNull, JAbsent}

\* The bodies of the POST /users requests that try validate_name and
\* validate_password.
ValidatorBodies ==
    {Object(JStr(n), JStr(EmailA), JStr(PwGood)) : n \in NamesTried}
    \cup {Object(JStr(NameAl), JStr(EmailA), pw) : pw \in PasswordsTried}

\* One client posting users with names and passwords of every kind.
NextValidators ==
    \/ \E r \in Posts("POST /users", <<>>, ValidatorBodies), salt \in Salts :
          CreateUserBegin(Main, r, salt)
    \/ CreateUserInsert(Main)
    \/ Deliver(Main)

SpecValidators == Init /\ [][NextValidators]_vars

\* ------------------------------------------------------------------------
\* Properties
\* ------------------------------------------------------------------------

\* The request worker p is handling or has answered.
Handling(p) == IF pc[p] = "done" THEN resp[p].req ELSE ctx[p].req

\* Worker p has answered a request of route op.
Answered(p, op) == pc[p] = "done" /\ resp[p].req.op = op

\* The response is an error response with this status code and reason.
IsError(r, code, reason) ==
    /\ r.code = code
    /\ r.body.status = "error"
    /\ DOMAIN r.body = {"status", "error"}
    /\ r.body.error = reason

\* No two rows of the users table hold the same email.
EmailsUnique ==
    \A i, j \in DOMAIN users : users[i].email = users[j].email => i = j

\* Worker p's step is the INSERT of an email the table holds already.
InsertsDuplicate(p) ==
    /\ pc[p] = "insert" /\ pc'[p] # "insert"
    /\ IdsWithEmail(ctx[p].email) # {}

\* Worker p's step is the UPDATE of an existing row to the email of another.
UpdatesToDuplicate(p) ==
    /\ pc[p] = "idle" /\ pc'[p] \in {"done", "reread"}
    /\ Handling(p)'.op = "PUT /user/<user_id>"
    /\ LET r == Handling(p)'
           i == validate_user_id(r.path)
           v == validate_update_user_data(r.body)
       IN /\ r.isJson /\ ~JsonFails(r) /\ i.ok /\ v.ok
          /\ RowId(i.value) \in DOMAIN users
          /\ v.value.email # None
          /\ IdsWithEmail(v.value.email) \ {RowId(i.value)} # {}

\* C1: in every reachable state no two stored users have the same email, and
\* every insert or update that would give two users one email is answered
\* 409 'Email already exists' (not 500) and changes no row.
C1_EmailUniqueness ==
    /\ []EmailsUnique
    /\ [][\A p \in Workers :
             (InsertsDuplicate(p) \/ UpdatesToDuplicate(p)) =>
                 /\ pc'[p] = "done"
                 /\ IsError(resp'[p], 409, "Email already exists")
                 /\ users' = users]_vars

\* C1's case: an update to another user's email has been answered 409.
C1_Witness ==
    /\ Answered(Main, "PUT /user/<user_id>")
    /\ resp[Main].code = 409
    /\ Cardinality(DOMAIN users) = 2

\* The request is a POST /users whose body validate_create_user_data accepts.
ValidCreate(r) ==
    /\ r.op = "POST /users" /\ r.isJson /\ ~JsonFails(r)
    /\ validate_create_user_data(r.body).ok

\* The normalized email of a valid POST /users.
CreateEmail(r) == validate_create_user_data(r.body).value.email

\* C2: of two POST /users requests with valid payloads whose emails normalize
\* to one value, on a database that does not hold it, in every interleaving
\* one is answered 201 and the other 409, and the table then holds one user
\* with that email.
C2_OneCreatedOneConflict ==
    \A p, q \in Workers :
        (/\ p # q
         /\ Answered(p, "POST /users") /\ Answered(q, "POST /users")
         /\ ValidCreate(resp[p].req) /\ ValidCreate(resp[q].req)
         /\ CreateEmail(resp[p].req) = CreateEmail(resp[q].req))
        => /\ {resp[p].code, resp[q].code} = {201, 409}
           /\ Cardinality(IdsWithEmail(CreateEmail(resp[p].req))) = 1

\* The request is a POST /login that validate_login_data accepts.
PassesLoginValidation(r) ==
    /\ r.op = "POST /login" /\ r.isJson /\ ~JsonFails(r)
    /\ validate_login_data(r.body).ok

\* A stored user has the email of the login and was created with its password.
RightCredentials(r) ==
    \E i \in IdsWithEmail(validate_login_data(r.body).value.email) :
        created[i].password = r.body.password

\* Worker p's step handles a whole request that arrives at it.
Handles(p) == pc[p] = "idle" /\ pc'[p] = "done"

\* C3: a login that passes validate_login_data, whatever the value of its
\* password, is answered 401 'Invalid email or password' both when no user
\* has its email and when a user has it and the password is not that user's.
C3_WrongPasswordLikeNoUser ==
    [][\A p \in Workers :
          (/\ Handles(p)
           /\ PassesLoginValidation(resp'[p].req)
           /\ ~RightCredentials(resp'[p].req))
          => IsError(resp'[p], 401, "Invalid email or password")]_vars

\* The JSON value is a string that is `email` but for letter case and
\* surrounding whitespace.
SameEmail(v, email) == v.type = "str" /\ Lower(Strip(v.text)) = email

\* C4: once POST /users has succeeded with (email, password), a POST /login
\* with that email in any letter case or with surrounding whitespace and
\* that password is answered 200 with the user's id and normalized email,
\* as long as the user is stored with the email it was created with.
C4_LoginAfterCreate ==
    [][\A p \in Workers : \A i \in DOMAIN users :
          (/\ Handles(p)
           /\ resp'[p].req.op = "POST /login"
           /\ resp'[p].req.isJson /\ resp'[p].req.body.kind = "object"
           /\ users[i].email = created[i].email
           /\ SameEmail(resp'[p].req.body.email, created[i].email)
           /\ resp'[p].req.body.password = created[i].password)
          => /\ resp'[p].code = 200
             /\ resp'[p].body.status = "success"
             /\ resp'[p].body.data.id = i
             /\ resp'[p].body.data.email = created[i].email]_vars

\* C4's case: a login with the email in another letter case and padded with
\* whitespace has been answered 200.
C4_Witness ==
    /\ Answered(Main, "POST /login")
    /\ resp[Main].req.body.email = JStr(EmailAVariant)
    /\ resp[Main].code = 200

\* The endpoints whose data is a list of users.
ListOps == {"GET /users", "GET /search"}

\* Neither the body of the response nor a user in its data has a
\* password_hash field.
NoPasswordHash(r) ==
    /\ "password_hash" \notin DOMAIN r.body
    /\ "data" \in DOMAIN r.body =>
          IF r.req.op \in ListOps
          THEN \A k \in DOMAIN r.body.data :
                  "password_hash" \notin DOMAIN r.body.data[k]
          ELSE "password_hash" \notin DOMAIN r.body.data

\* C5: no response of any endpoint, success or error, contains a
\* password_hash field.
C5_NoPasswordHash ==
    \A p \in Workers : pc[p] = "done" => NoPasswordHash(resp[p])

\* C5's case: GET /user/<user_id> has answered with a stored user.
C5_Witness ==
    /\ Answered(Main, "GET /user/<user_id>")
    /\ resp[Main].code = 200
    /\ "email" \in DOMAIN resp[Main].body.data

\* The response is an error response.
IsErrorResponse(r) == r.code \notin {200, 201}

MalformedBody(r) ==
    /\ \/ r.op \in {"POST /users", "POST /login"}
       \/ r.op = "PUT /user/<user_id>" /\ validate_user_id(r.path).ok
    /\ ~r.isJson \/ r.body.kind # "object"

\* C7: a POST /users, PUT /user/<user_id> with a valid id or POST /login
\* whose body is malformed is answered 400, never 500, and the table is
\* left as it was.
C7_MalformedBodyIs400 ==
    [][\A p \in Workers :
          (Handles(p) /\ MalformedBody(resp'[p].req))
          => resp'[p].code = 400 /\ users' = users]_vars

\* C8: once DELETE /user/<user_id> has deleted a user, GET /user/<user_id>
\* for that id is answered 404; and the DELETE of a valid id that is not in
\* the table is answered 404 'User not found', never 500, leaving the table
\* as it was.
C8_DeleteThenNotFound ==
    [][\A p \in Workers :
          Handles(p) =>
             LET r == resp'[p].req
                 i == validate_user_id(r.path)
             IN /\ (r.op = "GET /user/<user_id>" /\ i.ok /\ RowId(i.value) \in removed)
                   => IsError(resp'[p], 404, "User not found")
                /\ (r.op = "DELETE /user/<user_id>" /\ i.ok
                    /\ RowId(i.value) \notin DOMAIN users)
                   => /\ IsError(resp'[p], 404, "User not found")
                      /\ users' = users]_vars

\* The request worker p has taken up in this step.
Taken(p) == IF pc'[p] = "done" THEN resp'[p].req ELSE ctx'[p].req

\* C9: a PUT /user/<user_id> with a valid id whose JSON object has neither
\* name nor email is answered 400 without reaching the UPDATE, for the id of
\* a row and the id of none alike, and the table is left as it was.
C9_EmptyUpdateRejected ==
    [][\A p \in Workers :
          (/\ pc[p] = "idle" /\ pc'[p] # "idle"
           /\ Taken(p).op = "PUT /user/<user_id>"
           /\ validate_user_id(Taken(p).path).ok
           /\ Taken(p).isJson /\ Taken(p).body.kind = "object"
           /\ ~HasKey(Taken(p).body.name) /\ ~HasKey(Taken(p).body.email))
          => /\ pc'[p] = "done"
             /\ IsError(resp'[p], 400,
                        "At least one field (name or email) must be provided for update")
             /\ users' = users]_vars

\* C9's case: the empty update of a stored user has been answered 400.
C9_Witness ==
    /\ Answered(Main, "PUT /user/<user_id>")
    /\ resp[Main].req.body = Object(JAbsent, JAbsent, JAbsent)
    /\ resp[Main].req.path = <<"1">>
    /\ 1 \in DOMAIN users
    /\ resp[Main].code = 400

\* C10: the UPDATE of a successful update changes, of the addressed row,
\* only updated_at and the fields the request gives: its id, password_hash
\* and created_at, a field not given, and every other row stay as they
\* were; and no step changes the password_hash of a row.
C10_UpdateFrame ==
    [][/\ \A p \in Workers :
             (pc[p] = "idle" /\ pc'[p] = "reread") =>
                LET r == ctx'[p].req
                    id == RowId(validate_user_id(r.path).value)
                IN /\ DOMAIN users' = DOMAIN users
                   /\ id \in DOMAIN users
                   /\ \A i \in DOMAIN users \ {id} : users'[i] = users[i]
                   /\ users'[id].id = users[id].id
                   /\ users'[id].password_hash = users[id].password_hash
                   /\ users'[id].created_at = users[id].created_at
                   /\ ~HasKey(r.body.name) => users'[id].name = users[id].name
                   /\ ~HasKey(r.body.email) => users'[id].email = users[id].email
       /\ \A i \in DOMAIN users \cap DOMAIN users' :
             users'[i].password_hash = users[i].password_hash]_vars

\* C10's case: an update that gives only the email has been committed, while
\* another user is stored.
C10_Witness ==
    /\ pc[Main] = "reread"
    /\ ~HasKey(ctx[Main].req.body.name)
    /\ Cardinality(DOMAIN users) = 2

\* Worker p takes up, in this step, a PUT with a valid id and a body
\* validate_update_user_data accepts.
TakesUpdate(p) ==
    /\ pc[p] = "idle" /\ pc'[p] # "idle"
    /\ Taken(p).op = "PUT /user/<user_id>"
    /\ validate_user_id(Taken(p).path).ok
    /\ Taken(p).isJson /\ ~JsonFails(Taken(p))
    /\ validate_update_user_data(Taken(p).body).ok

\* C11: a PUT that sets the email of a stored user to the normalized email
\* of another stored user is answered 409 and changes nothing; the same PUT
\* for a valid id of no stored user is answered 404; and a PUT that sets a
\* user's email to the email it has is answered 200.
C11_UpdateToTakenEmail ==
    [][\A p \in Workers :
          /\ TakesUpdate(p) =>
                LET id == RowId(validate_user_id(Taken(p).path).value)
                    e == validate_update_user_data(Taken(p).body).value.email
                IN /\ (id \in DOMAIN users /\ IdsWithEmail(e) \ {id} # {})
                      => /\ pc'[p] = "done"
                         /\ resp'[p].code = 409
                         /\ users' = users
                   /\ (id \notin DOMAIN users /\ IdsWithEmail(e) # {})
                      => /\ pc'[p] = "done"
                         /\ resp'[p].code = 404
                         /\ users' = users
                   /\ (id \in DOMAIN users /\ users[id].email = e)
                      => /\ pc'[p] = "reread"
                         /\ users'[id].email = e
          /\ (pc[p] = "reread" /\ pc'[p] = "done") => resp'[p].code = 200]_vars

\* C12: the 201 response of a create carries the id of the new row, the
\* trimmed, lowercased email and the trimmed name of the request, which are
\* what the row holds; no step but the UPDATE of a PUT changes a stored row;
\* and a GET /user/<user_id> of a stored user is answered 200 with the
\* id, name and email of the row.
C12_CreateThenGet ==
    [][/\ (\A p \in Workers : ~(pc[p] = "idle" /\ pc'[p] = "reread")) =>
             \A i \in DOMAIN users \cap DOMAIN users' : users'[i] = users[i]
       /\ \A p \in Workers :
          /\ (pc[p] = "insert" /\ pc'[p] = "done" /\ resp'[p].code = 201) =>
                LET r == resp'[p].req
                    d == resp'[p].body.data
                IN /\ d.id \in DOMAIN users' \ DOMAIN users
                   /\ d.email = Lower(Strip(r.body.email.text))
                   /\ d.name = Strip(r.body.name.text)
                   /\ users'[d.id].email = d.email
                   /\ users'[d.id].name = d.name
          /\ (Handles(p) /\ resp'[p].req.op = "GET /user/<user_id>") =>
                LET i == validate_user_id(resp'[p].req.path)
                IN (i.ok /\ RowId(i.value) \in DOMAIN users) =>
                      /\ resp'[p].code = 200
                      /\ resp'[p].body.data.id = RowId(i.value)
                      /\ resp'[p].body.data.name = users[RowId(i.value)].name
                      /\ resp'[p].body.data.email = users[RowId(i.value)].email]_vars

\* C12's case: a create whose email is padded and in another letter case
\* has been answered 201.
C12_Witness ==
    /\ Answered(Main, "POST /users")
    /\ resp[Main].code = 201
    /\ resp[Main].req.body.email = JStr(EmailAVariant)

\* The ids of the stored users whose name contains t, ignoring letter case.
IdsWithNameContaining(t) ==
    {i \in DOMAIN users : Contains(Lower(users[i].name), Lower(t))}

\* Worker p's step answers a GET /search whose term validate_search_name
\* accepts.
SearchesValidTerm(p) ==
    /\ Handles(p)
    /\ resp'[p].req.op = "GET /search"
    /\ Truthy(resp'[p].req.q)
    /\ validate_search_name(resp'[p].req.q.text).ok

\* The users of the response of worker p's step are the stored users with
\* the given ids, one entry each, with the columns of the row.
ReturnsUsers(p, ids) ==
    LET d == resp'[p].body.data
    IN /\ resp'[p].code = 200
       /\ {d[k].id : k \in DOMAIN d} = ids
       /\ Len(d) = Cardinality(ids)
       /\ \A k \in DOMAIN d : d[k] = PublicColumns(users[d[k].id])

\* C13 as stated: a search with a valid term T returns exactly the stored
\* users whose name contains T, ignoring letter case.
C13_SearchByTermAsGiven ==
    [][\A p \in Workers :
          SearchesValidTerm(p)
          => ReturnsUsers(p, IdsWithNameContaining(resp'[p].req.q.text))]_vars

\* C13: a search with a valid term T returns exactly the stored users whose
\* name contains T without its surrounding whitespace, ignoring letter
\* case.
C13_SearchByTrimmedTerm ==
    [][\A p \in Workers :
          SearchesValidTerm(p)
          => ReturnsUsers(p, IdsWithNameContaining(Strip(resp'[p].req.q.text)))]_vars

\* C13's case: a search with a padded term in another letter case has
\* returned a user.
C13_Witness ==
    /\ Answered(Main, "GET /search")
    /\ resp[Main].req.q = JStr(<<" ", "L">>)
    /\ resp[Main].code = 200
    /\ Len(resp[Main].body.data) >= 1

\* The path id is empty, is not an integer in base 10, or is an integer
\* that is not positive.
BadPathId(path) ==
    \/ path = <<>>
    \/ ~ParseInt(path).ok
    \/ ParseInt(path).neg
    \/ ParseInt(path).digits = <<"0">>

\* C14: GET /user/<user_id> is answered 400 exactly when the id is empty,
\* not an integer or not positive; 404 exactly when the id is valid and no
\* user with it is stored; and 200 with the user otherwise.
C14_GetUserStatus ==
    [][\A p \in Workers :
          (Handles(p) /\ resp'[p].req.op = "GET /user/<user_id>") =>
             LET path == resp'[p].req.path
                 stored == /\ ~BadPathId(path)
                           /\ Len(ParseInt(path).digits) <= 9
                           /\ DigitsValue(ParseInt(path).digits) \in DOMAIN users
             IN /\ resp'[p].code = (IF BadPathId(path) THEN 400
                                    ELSE IF ~stored THEN 404 ELSE 200)
                /\ stored =>
                      resp'[p].body.data.id = DigitsValue(ParseInt(path).digits)]_vars

\* Worker p takes up, in this step, a POST /users with a JSON object whose
\* name and email are valid.
TakesCreateWithNameAndEmail(p) ==
    /\ pc[p] = "idle" /\ pc'[p] # "idle"
    /\ Taken(p).op = "POST /users"
    /\ Taken(p).isJson /\ Taken(p).body.kind = "object"
    /\ HasKey(Taken(p).body.name) /\ validate_name(Taken(p).body.name).ok
    /\ HasKey(Taken(p).body.email) /\ validate_email(Taken(p).body.email).ok

\* The characters str.isalpha() holds of, among those of the model.
Alphabetic == Letters \cup {EAcute}

\* The value is a string of 8 to 128 characters with an alphabetic
\* character and a digit.
AcceptablePassword(v) ==
    /\ v.type = "str"
    /\ Len(v.text) >= 8 /\ Len(v.text) <= 128
    /\ \E i \in DOMAIN v.text : v.text[i] \in Alphabetic
    /\ \E i \in DOMAIN v.text : v.text[i] \in Digits

\* C15: validate_password accepts a value exactly when it is a string of 8
\* to 128 characters with at least one alphabetic character and at least
\* one digit: a POST /users with a valid name and email is answered 400 for
\* the password exactly when the password is not such a string.
C15_PasswordAccepted ==
    [][\A p \in Workers :
          TakesCreateWithNameAndEmail(p) =>
             /\ validate_password(Taken(p).body.password).ok
                   <=> AcceptablePassword(Taken(p).body.password)
             /\ (pc'[p] = "done" /\ resp'[p].code = 400)
                   <=> ~AcceptablePassword(Taken(p).body.password)]_vars

\* Worker p takes up, in this step, a POST /users with a JSON object whose
\* email and password are valid.
TakesCreateWithEmailAndPassword(p) ==
    /\ pc[p] = "idle" /\ pc'[p] # "idle"
    /\ Taken(p).op = "POST /users"
    /\ Taken(p).isJson /\ Taken(p).body.kind = "object"
    /\ HasKey(Taken(p).body.email) /\ validate_email(Taken(p).body.email).ok
    /\ HasKey(Taken(p).body.password)
    /\ validate_password(Taken(p).body.password).ok

\* The value is a non-empty string that, trimmed, has 2 to 100 characters,
\* each a letter, a space, a hyphen or an apostrophe.
AcceptableName(v) ==
    /\ v.type = "str" /\ v.text # <<>>
    /\ Len(Strip(v.text)) >= 2 /\ Len(Strip(v.text)) <= 100
    /\ \A i \in DOMAIN Strip(v.text) :
          Strip(v.text)[i] \in Letters \cup {" ", "-", "'"}

\* C16: validate_name returns the trimmed input exactly when the input is a
\* non-empty string whose trimmed length is 2 to 100 and whose characters
\* are letters, spaces, hyphens and apostrophes, and fails otherwise, as for
\* a name with a tab or a newline inside: a POST /users with a valid email
\* and password is answered 400 for the name exactly when the name is not
\* such a string.
C16_NameAccepted ==
    [][\A p \in Workers :
          TakesCreateWithEmailAndPassword(p) =>
             LET v == validate_name(Taken(p).body.name)
             IN /\ v.ok <=> (HasKey(Taken(p).body.name)
                             /\ AcceptableName(Taken(p).body.name))
                /\ v.ok => v.value = Strip(Taken(p).body.name.text)
                /\ (pc'[p] = "done" /\ resp'[p].code = 400)
                      <=> ~(HasKey(Taken(p).body.name)
                            /\ AcceptableName(Taken(p).body.name))]_vars

\* C17: in every interleaving, a PUT is answered 404 only by the step whose
\* UPDATE matched no row, which leaves the table as it was, and its 200
\* response carries the name and the email the request wrote.
C17_UpdateAndReadAtomic ==
    [][\A p \in Workers :
          (/\ pc[p] # "done" /\ pc'[p] = "done"
           /\ resp'[p].req.op = "PUT /user/<user_id>")
          => LET v == validate_update_user_data(resp'[p].req.body).value
             IN /\ resp'[p].code = 404 => (pc[p] = "idle" /\ users' = users)
                /\ resp'[p].code = 200 =>
                      /\ v.name # None => resp'[p].body.data.name = v.name
                      /\ v.email # None => resp'[p].body.data.email = v.email]_vars

\* C18: POST /users is answered 409 only by the INSERT, and only when the
\* table then holds a user with the normalized email of the request; no
\* other failure of create_user is answered 409.
C18_ConflictOnlyOnDuplicate ==
    [][\A p \in Workers :
          (/\ pc[p] # "done" /\ pc'[p] = "done"
           /\ resp'[p].req.op = "POST /users"
           /\ resp'[p].code = 409)
          => /\ pc[p] = "insert"
             /\ IdsWithEmail(Lower(Strip(resp'[p].req.body.email.text))) # {}]_vars

\* C19: the id a successful create returns is positive and greater than
\* every id a create returned before, those of deleted users included (an
\* id returned before is the id of a stored or of a deleted user); every
\* stored row is found under its own id, and no step changes the id of a
\* row.
C19_IdsNeverReused ==
    [][/\ \A p \in Workers :
             (pc[p] = "insert" /\ pc'[p] = "done" /\ resp'[p].code = 201) =>
                LET n == resp'[p].body.data.id
                IN /\ n > 0
                   /\ \A i \in DOMAIN users \cup removed : n > i
                   /\ DOMAIN users' = DOMAIN users \cup {n}
       /\ \A i \in DOMAIN users' : users'[i].id = i
       /\ \A i \in DOMAIN users \cap DOMAIN users' : users'[i].id = users[i].id]_vars

\* C19's case: a create has been answered 201 after the user with the
\* highest id was deleted.
C19_Witness ==
    /\ Answered(Main, "POST /users")
    /\ resp[Main].code = 201
    /\ removed = {1}
    /\ DOMAIN users = {2}

\* Worker p's step answers a POST /login with a JSON object that has the
\* given email, in any letter case and padding, and the given password.
AnswersLogin(p, email, password) ==
    /\ Handles(p)
    /\ resp'[p].req.op = "POST /login"
    /\ resp'[p].req.isJson /\ resp'[p].req.body.kind = "object"
    /\ SameEmail(resp'[p].req.body.email, email)
    /\ resp'[p].req.body.password = password

\* C20: once a PUT has changed the email of a user from E1, the email it
\* was created with, to E2, a login with E2 and the password given at
\* creation is answered 200 for that user, and a login with E1 and that
\* password is answered 401 as long as no user has the email E1.
C20_LoginFollowsEmail ==
    [][\A p \in Workers : \A i \in DOMAIN users :
          users[i].email # created[i].email =>
             /\ AnswersLogin(p, users[i].email, created[i].password)
                => /\ resp'[p].code = 200
                   /\ resp'[p].body.data.id = i
                   /\ resp'[p].body.data.email = users[i].email
             /\ (/\ AnswersLogin(p, created[i].email, created[i].password)
                 /\ IdsWithEmail(created[i].email) = {})
                => IsError(resp'[p], 401, "Invalid email or password")]_vars

\* C20's case: a user whose email was changed has logged in with the new
\* email.
C20_Witness ==
    /\ Answered(Main, "POST /login")
    /\ resp[Main].code = 200
    /\ \E i \in DOMAIN users :
          /\ users[i].email # created[i].email
          /\ resp[Main].body.data.id = i

====
